---------------------------- MODULE Spec2Model ----------------------------
(***************************************************************************)
(* A model of src/src/grpc/interceptor.rs: the two credential interceptors *)
(* (APIKeyClientInterceptor, BearerTokenInterceptor), the composite        *)
(* interceptor that runs a shared, mutex-guarded Vec of boxed interceptors *)
(* in order, and the clients that call it concurrently or change the Vec.  *)
(*                                                                         *)
(* Strings are sequences of byte values, so that the parsers of metadata   *)
(* keys and values are computed byte by byte.  An Option<T> is a sequence  *)
(* of length 0 (None) or 1 (Some).  A request is its metadata map: a       *)
(* function from keys to the non-empty sequence of values held under the   *)
(* key (the transport's header map is a multimap).                         *)
(***************************************************************************)
EXTENDS Integers, Sequences, FiniteSets, TLC

VARIABLES
    coll,       \* coll[c]: the Vec<BoxedInterceptor> behind shared collection c
    owner,      \* owner[c]: who holds the Mutex of c (NoOwner when free)
    poisoned,   \* poisoned[c]: the Mutex's poison flag
    pc,         \* pc[t]: where client thread t is in its call on a composite
    stack,      \* stack[t]: the active CompositeInterceptor::call frames of t
    req,        \* req[t]: the request t's call is threading through the members
    err,        \* err[t]: Some(status) while an Err travels up through the `?`s
    result,     \* result[t]: Some(outcome) once the outermost call has returned
    req0,       \* req0[t]: the request t's call was given (history)
    last,       \* last[t]: Some(record of the frame that returned last) (history)
    trace,      \* trace[t]: the credential interceptors t's call invoked (history)
    crashed,    \* the collections a holder of whose guard has panicked (history)
    mpc,        \* the membership-changing client: "idle" or "hold"
    mcoll,      \* the collection whose guard that client holds
    nmut,       \* membership changes made so far
    built,      \* built[c]: the instances interceptors! was given for c (history)
    icpt,       \* the credential interceptor of a stand-alone call
    lreq,       \* the request given to the stand-alone call
    lout,       \* Some(outcome) of the stand-alone call
    lkey        \* Some(key) once header_key() has been called on icpt

vars == <<coll, owner, poisoned, pc, stack, req, err, result, req0, last,
          trace, crashed, mpc, mcoll, nmut, built, icpt, lreq, lout, lkey>>

pipeVars == <<coll, owner, poisoned, pc, stack, req, err, result, req0, last,
              trace, crashed, mpc, mcoll, nmut, built>>

leafVars == <<icpt, lreq, lout, lkey>>

---------------------------------------------------------------------------
(* Bounds of the model. *)

\* Members the collections hold between them.
MaxMembers == 2

\* Membership changes (push, remove) the run may make.
MaxMutations == 1

\* Client threads calling the composite concurrently.
Threads == {1, 2}

\* Shared collections (Arc<Mutex<Vec<..>>> values) in existence.
Colls == {1, 2}

\* The collection of the composite the threads call; the other collections
\* are reached through composites nested in it.
Roots == {1}

---------------------------------------------------------------------------
(* Byte strings. *)

\* "x-api-key"
X_API_KEY == <<120, 45, 97, 112, 105, 45, 107, 101, 121>>

\* "authorization"
AUTHORIZATION == <<97, 117, 116, 104, 111, 114, 105, 122, 97, 116, 105, 111, 110>>

\* "Bearer "
BEARER_PREFIX == <<66, 101, 97, 114, 101, 114, 32>>

\* "-bin"
BIN_SUFFIX == <<45, 98, 105, 110>>

None == <<>>

Some(v) == <<v>>

---------------------------------------------------------------------------
(* tonic / http parsers the interceptors call. *)

\* A table that keeps the case of a header name's letters.
KeepCase(b) == b

\* http's HEADER_CHARS table maps 'A'..'Z' to 'a'..'z'.
ToLower(b) == IF b \in 65..90 THEN b + 32 ELSE b

\* The bytes http's HEADER_CHARS table accepts in a header name:
\* ! # $ % & ' * + - . 0-9 A-Z ^ _ ` a-z | ~
IsTokenByte(b) ==
    b \in {33, 35, 36, 37, 38, 39, 42, 43, 45, 46, 94, 95, 96, 124, 126}
           \cup (48..57) \cup (65..90) \cup (97..122)

\* http's is_visible_ascii: what HeaderValue::from_str accepts.
IsVisibleAscii(b) == (b >= 32 /\ b < 127) \/ b = 9

EndsWith(s, suffix) ==
    /\ Len(s) >= Len(suffix)
    /\ SubSeq(s, Len(s) - Len(suffix) + 1, Len(s)) = suffix

\* MetadataKey::<Ascii>::from_bytes: HeaderName::from_bytes (rejects the empty
\* name and any non-token byte, lower-cases the rest), then Ascii::is_valid_key
\* (rejects a "-bin" name).
MetadataKeyFromBytes(src) ==
    LET lowered == [i \in 1..Len(src) |-> ToLower(src[i])]
    IN  IF /\ Len(src) > 0
           /\ \A i \in 1..Len(src) : IsTokenByte(src[i])
           /\ ~EndsWith(lowered, BIN_SUFFIX)
        THEN [ok |-> TRUE, key |-> lowered]
        ELSE [ok |-> FALSE, key |-> <<>>]

\* AsciiMetadataValue::from_str: HeaderValue::from_str keeps the bytes as they
\* are and rejects a string holding a byte that is not visible ASCII.
AsciiMetadataValueFromStr(s) ==
    IF \A i \in 1..Len(s) : IsVisibleAscii(s[i])
    THEN [ok |-> TRUE, value |-> s]
    ELSE [ok |-> FALSE, value |-> <<>>]

\* A metadata map: a function from keys to the sequence of values under it.
EmptyMetadata == <<>>

\* MetadataMap::append: the value joins the key's previous values.
InsertAppending(md, k, v) ==
    [x \in DOMAIN md \cup {k} |->
        IF x = k
        THEN (IF k \in DOMAIN md THEN Append(md[k], v) ELSE <<v>>)
        ELSE md[x]]

\* MetadataMap::insert: the value takes the place of the key's previous values.
Insert(md, k, v) ==
    [x \in DOMAIN md \cup {k} |-> IF x = k THEN <<v>> ELSE md[x]]

---------------------------------------------------------------------------
(* tonic::Status and the Result of Interceptor::call. *)

NoStatus == [code |-> "Ok", message |-> ""]

invalid_argument(message) == [code |-> "InvalidArgument", message |-> message]

internal(message) == [code |-> "Internal", message |-> message]

Ok(r) == [ok |-> TRUE, req |-> r, status |-> NoStatus]

Err(status) == [ok |-> FALSE, req |-> EmptyMetadata, status |-> status]

---------------------------------------------------------------------------
(* APIKeyClientInterceptor. *)

\* The two String fields taken one for the other.
APIKeyNewSwapped(api_key) ==
    [kind |-> "apikey", header_name |-> Some(api_key), api_key |-> api_key]

\* APIKeyClientInterceptor::new
APIKeyNew(api_key) == [kind |-> "apikey", header_name |-> None, api_key |-> api_key]

\* The struct literal with an override, as the tests build it.
APIKeyWith(header, api_key) ==
    [kind |-> "apikey", header_name |-> Some(header), api_key |-> api_key]

header_name(self) ==
    IF self.header_name = None THEN X_API_KEY ELSE self.header_name[1]

\* The override used as the key without being parsed.
header_key_unvalidated(self) == header_name(self)

header_key(self) ==
    LET parsed == MetadataKeyFromBytes(header_name(self))
    IN  IF parsed.ok THEN parsed.key ELSE X_API_KEY

\* The secret inserted without being parsed as a metadata value.
APIKeyCallUnchecked(self, request) ==
    Ok(Insert(request, header_key(self), self.api_key))

APIKeyCall(self, request) ==
    LET value == AsciiMetadataValueFromStr(self.api_key)
    IN  IF value.ok
        THEN Ok(Insert(request, header_key(self), value.value))
        ELSE Err(invalid_argument("Error while setting additional metadata"))

---------------------------------------------------------------------------
(* BearerTokenInterceptor. *)

BearerNew(token) == [kind |-> "bearer", token |-> token]

\* The token inserted as it is, without the scheme.
BearerCallNoPrefix(self, request) ==
    LET value == AsciiMetadataValueFromStr(self.token)
    IN  IF value.ok
        THEN Ok(Insert(request, AUTHORIZATION, value.value))
        ELSE Err(invalid_argument("Invalid Token"))

BearerCall(self, request) ==
    LET value == AsciiMetadataValueFromStr(BEARER_PREFIX \o self.token)
    IN  IF value.ok
        THEN Ok(Insert(request, AUTHORIZATION, value.value))
        ELSE Err(invalid_argument("Invalid Token"))

---------------------------------------------------------------------------
(* The members a collection can hold: Box<dyn Interceptor + Send + Sync>. *)

\* CompositeInterceptor::new: a composite holds a handle on a collection.
CompositeNew(c) == [kind |-> "composite", interceptors |-> c]

\* "key"
KEY == <<107, 101, 121>>

\* "k\n": not a metadata value
BAD_KEY == <<107, 10>>

\* "token"
TOKEN == <<116, 111, 107, 101, 110>>

\* "t\n": "Bearer t\n" is not a metadata value
BAD_TOKEN == <<116, 10>>

Leaves ==
    {APIKeyNew(KEY), APIKeyNew(BAD_KEY), BearerNew(TOKEN), BearerNew(BAD_TOKEN)}

Members == Leaves \cup {CompositeNew(c) : c \in Colls}

SeqsUpTo(S, n) == UNION {[1..k -> S] : k \in 0..n}

\* "request-id"
REQUEST_ID == <<114, 101, 113, 117, 101, 115, 116, 45, 105, 100>>

\* "old"
OLD == <<111, 108, 100>>

\* The request thread t sends: it carries t's own request id ('0' + t), and an
\* x-api-key entry already when t is even.
RequestOf(t) ==
    LET id == (REQUEST_ID :> <<(<<48 + t>>)>>)
    IN  IF t % 2 = 0 THEN id @@ (X_API_KEY :> <<OLD>>) ELSE id

\* Each member is given a new request instead of the one threaded so far.
LeafCallOnFresh(m, request) ==
    IF m.kind = "apikey" THEN APIKeyCall(m, EmptyMetadata)
    ELSE BearerCall(m, EmptyMetadata)

\* The dynamic dispatch of a credential interceptor's call.
LeafCall(m, request) ==
    IF m.kind = "apikey" THEN APIKeyCall(m, request) ELSE BearerCall(m, request)

---------------------------------------------------------------------------
(* std::sync::Mutex and the frames of CompositeInterceptor::call. *)

NoOwner == 0

\* The client that changes a collection's membership: not a calling thread.
Mutator == Cardinality(Threads) + 1

\* PoisonError's Display.
POISON_MESSAGE == "poisoned lock: another task failed inside"

\* A frame of CompositeInterceptor::call on collection c, entered with request r.
\* i: the members the loop has passed.  held: the frame owns a MutexGuard.
\* History: snap, the Vec when the guard was obtained; poison, the poison flag
\* lock() found; afterCrash, whether a holder of this mutex had panicked before;
\* hist, the members invoked, with what each was given and what it returned.
NewFrame(c, r) ==
    [coll |-> c, i |-> 0, held |-> FALSE, snap |-> <<>>, poison |-> FALSE,
     afterCrash |-> FALSE, reqIn |-> r, hist |-> <<>>]

Top(t) == stack[t][Len(stack[t])]

Pop(s) == SubSeq(s, 1, Len(s) - 1)

SetTop(s, f) == [s EXCEPT ![Len(s)] = f]

\* The record kept of a frame that has returned.
Returned(f, outcome) ==
    [coll |-> f.coll, snap |-> f.snap, poison |-> f.poison,
     afterCrash |-> f.afterCrash, reqIn |-> f.reqIn, hist |-> f.hist,
     out |-> outcome, depth |-> 0]

Invoked(f, m, r, out) == [f EXCEPT !.hist = Append(@, [member |-> m, reqIn |-> r, out |-> out])]

\* The parent's record of its pending member gets the member's outcome.
Resolve(f, outcome) == [f EXCEPT !.hist[Len(f.hist)].out = Some(outcome)]

---------------------------------------------------------------------------
(* A client thread's call on a composite. *)

\* The RPC layer calls CompositeInterceptor::call(request) on a composite over c.
Start(t, c, r) ==
    /\ pc[t] = "idle"
    /\ pc' = [pc EXCEPT ![t] = "lock"]
    /\ stack' = [stack EXCEPT ![t] = <<NewFrame(c, r)>>]
    /\ req' = [req EXCEPT ![t] = r]
    /\ req0' = [req0 EXCEPT ![t] = Some(r)]
    /\ UNCHANGED <<coll, owner, poisoned, err, result, last, trace, crashed,
                   mpc, mcoll, nmut>>
    /\ UNCHANGED <<built, leafVars>>

\* The first statement of CompositeInterceptor::call.  lock() waits until the
\* mutex is free (`free`), takes it, and gives Err(PoisonError(guard)) when it
\* finds the poison flag set (`poison`); map_err turns that into
\* Status::internal, and `?` returns it.
LockInterceptors(t, free, poison) ==
    /\ pc[t] = "lock"
    /\ LET f == Top(t)
           c == f.coll
       IN  /\ free
           /\ owner' = [owner EXCEPT ![c] = t]
           /\ stack' = [stack EXCEPT ![t] =
                            SetTop(@, [f EXCEPT !.held = TRUE, !.snap = coll[c],
                                                !.poison = poisoned[c],
                                                !.afterCrash = c \in crashed])]
           /\ IF poison
              THEN /\ err' = [err EXCEPT ![t] = Some(internal(
                                 "Failed to lock interceptors: " \o POISON_MESSAGE))]
                   /\ pc' = [pc EXCEPT ![t] = "unwind"]
              ELSE /\ pc' = [pc EXCEPT ![t] = "run"]
                   /\ UNCHANGED err
    /\ UNCHANGED <<coll, poisoned, req, result, req0, last, trace, crashed,
                   mpc, mcoll, nmut>>
    /\ UNCHANGED <<built, leafVars>>

\* A lock() that recovers the guard from the PoisonError and goes on.
AcquireIgnoringPoison(t) ==
    LockInterceptors(t, owner[Top(t).coll] = NoOwner, FALSE)

\* A lock that does not wait for the holder.
AcquireNoWait(t) ==
    LockInterceptors(t, TRUE, poisoned[Top(t).coll])

Acquire(t) ==
    LockInterceptors(t, owner[Top(t).coll] = NoOwner, poisoned[Top(t).coll])

\* One turn of `for interceptor in interceptors.iter_mut()`:
\* req = interceptor.call(req)?  for the next member of the Vec.
InvokeNext(t, slot) ==
    /\ pc[t] = "run"
    /\ LET f == Top(t)
           m == coll[f.coll][f.i + 1]
       IN  /\ f.i < Len(coll[f.coll])
           /\ \/ /\ m.kind \in {"apikey", "bearer"}
                 /\ LET out == LeafCall(m, req[slot])
                        g == Invoked(f, m, req[slot], Some(out))
                    IN  /\ trace' = [trace EXCEPT ![t] = Append(@, m)]
                        /\ IF out.ok
                           THEN /\ req' = [req EXCEPT ![slot] = out.req]
                                /\ stack' = [stack EXCEPT ![t] =
                                                 SetTop(@, [g EXCEPT !.i = @ + 1])]
                                /\ UNCHANGED <<pc, err>>
                           ELSE /\ err' = [err EXCEPT ![t] = Some(out.status)]
                                /\ pc' = [pc EXCEPT ![t] = "unwind"]
                                /\ stack' = [stack EXCEPT ![t] = SetTop(@, g)]
                                /\ UNCHANGED req
              \/ /\ m.kind = "composite"
                 /\ stack' = [stack EXCEPT ![t] =
                        Append(SetTop(@, Invoked(f, m, req[slot], None)),
                               NewFrame(m.interceptors, req[slot]))]
                 /\ pc' = [pc EXCEPT ![t] = "lock"]
                 /\ UNCHANGED <<req, err, trace>>
    /\ UNCHANGED <<coll, owner, poisoned, result, req0, last, crashed, mpc, mcoll, nmut>>
    /\ UNCHANGED <<built, leafVars>>

\* The request kept in one place for every call.
InvokeShared(t) == InvokeNext(t, CHOOSE u \in Threads : \A v \in Threads : u <= v)

Invoke(t) == InvokeNext(t, t)

\* The loop is over: the frame returns `out`, and its guard is dropped.  In a
\* nested frame the caller's loop takes the returned request as its req.
ReturnWith(t, out) ==
    /\ pc[t] = "run"
    /\ LET f == Top(t)
           rest == Pop(stack[t])
       IN  /\ f.i = Len(coll[f.coll])
           /\ owner' = [owner EXCEPT ![f.coll] = NoOwner]
           /\ last' = [last EXCEPT ![t] = Some([Returned(f, out) EXCEPT !.depth = Len(rest)])]
           /\ IF rest = <<>>
              THEN /\ stack' = [stack EXCEPT ![t] = rest]
                   /\ result' = [result EXCEPT ![t] = Some(out)]
                   /\ pc' = [pc EXCEPT ![t] = "done"]
                   /\ UNCHANGED req
              ELSE /\ stack' = [stack EXCEPT ![t] =
                            SetTop(rest, [Resolve(rest[Len(rest)], out) EXCEPT !.i = @ + 1])]
                   /\ req' = [req EXCEPT ![t] = out.req]
                   /\ UNCHANGED <<result, pc>>
    /\ UNCHANGED <<coll, poisoned, err, req0, trace, crashed,
                   mpc, mcoll, nmut>>
    /\ UNCHANGED <<built, leafVars>>

\* The loop takes the members out of the Vec (interceptors.drain(..)): the Vec
\* is empty when the frame returns.
ReturnDraining(t) ==
    /\ pc[t] = "run"
    /\ LET f == Top(t)
           rest == Pop(stack[t])
           out == Ok(req[t])
       IN  /\ f.i = Len(coll[f.coll])
           /\ coll' = [coll EXCEPT ![f.coll] = <<>>]
           /\ owner' = [owner EXCEPT ![f.coll] = NoOwner]
           /\ last' = [last EXCEPT ![t] = Some([Returned(f, out) EXCEPT !.depth = Len(rest)])]
           /\ IF rest = <<>>
              THEN /\ stack' = [stack EXCEPT ![t] = rest]
                   /\ result' = [result EXCEPT ![t] = Some(out)]
                   /\ pc' = [pc EXCEPT ![t] = "done"]
                   /\ UNCHANGED req
              ELSE /\ stack' = [stack EXCEPT ![t] =
                            SetTop(rest, [Resolve(rest[Len(rest)], out) EXCEPT !.i = @ + 1])]
                   /\ req' = [req EXCEPT ![t] = out.req]
                   /\ UNCHANGED <<result, pc>>
    /\ UNCHANGED <<poisoned, err, req0, trace, crashed, mpc, mcoll, nmut>>
    /\ UNCHANGED <<built, leafVars>>

\* The request the frame was entered with comes back.
ReturnOriginal(t) == ReturnWith(t, Ok(Top(t).reqIn))

\* A new request comes back.
ReturnFresh(t) == ReturnWith(t, Ok(EmptyMetadata))

\* Ok(req)
Return(t) == ReturnWith(t, Ok(req[t]))

\* `?` on an Err: the frame returns `out`, dropping its guard if `drops` (the
\* guard is the one inside the PoisonError when the Err is the lock's).
ReturnErr(t, out, drops) ==
    /\ pc[t] = "unwind"
    /\ LET f == Top(t)
           rest == Pop(stack[t])
       IN  /\ IF drops THEN owner' = [owner EXCEPT ![f.coll] = NoOwner]
                       ELSE UNCHANGED owner
           /\ last' = [last EXCEPT ![t] = Some([Returned(f, out) EXCEPT !.depth = Len(rest)])]
           /\ IF rest = <<>>
              THEN /\ stack' = [stack EXCEPT ![t] = rest]
                   /\ result' = [result EXCEPT ![t] = Some(out)]
                   /\ pc' = [pc EXCEPT ![t] = "done"]
              ELSE /\ stack' = [stack EXCEPT ![t] =
                            SetTop(rest, Resolve(rest[Len(rest)], out))]
                   /\ UNCHANGED <<result, pc>>
    /\ UNCHANGED <<coll, poisoned, req, err, req0, trace, crashed,
                   mpc, mcoll, nmut>>
    /\ UNCHANGED <<built, leafVars>>

\* The member's status wrapped in one of the composite's own.
PropagateWrapped(t) ==
    ReturnErr(t, Err(internal("Interceptor failed: " \o err[t][1].message)), TRUE)

\* The guard outlives the frame on the error path.
PropagateLeaking(t) == ReturnErr(t, Err(err[t][1]), FALSE)

\* The member's message in a Status of the composite's own kind.
PropagateAsInternal(t) == ReturnErr(t, Err(internal(err[t][1].message)), TRUE)

\* The Err as it is.
Propagate(t) == ReturnErr(t, Err(err[t][1]), TRUE)

\* lock() on a mutex the calling thread already holds: std leaves the behaviour
\* unspecified but for the call not returning: it blocks for ever (no step), or
\* it panics (this step).
RelockPanic(t) ==
    /\ pc[t] = "lock"
    /\ owner[Top(t).coll] = t
    /\ pc' = [pc EXCEPT ![t] = "panicking"]
    /\ UNCHANGED <<coll, owner, poisoned, stack, req, err, result, req0, last,
                   trace, crashed, mpc, mcoll, nmut>>
    /\ UNCHANGED <<built, leafVars>>

\* A mutex that keeps no poison flag.
NoPoisonOnPanic(c) == poisoned

\* MutexGuard's drop while the thread panics: the mutex's poison flag is set.
PoisonOnPanic(c) == [poisoned EXCEPT ![c] = TRUE]

\* A panic unwinds one frame: a guard dropped while panicking poisons its mutex
\* and unlocks it.  The thread is gone once its last frame has unwound.
PanicUnwind(t) ==
    /\ pc[t] = "panicking"
    /\ LET f == Top(t)
           rest == Pop(stack[t])
       IN  /\ stack' = [stack EXCEPT ![t] = rest]
           /\ IF f.held
              THEN /\ owner' = [owner EXCEPT ![f.coll] = NoOwner]
                   /\ poisoned' = PoisonOnPanic(f.coll)
                   /\ crashed' = crashed \cup {f.coll}
              ELSE UNCHANGED <<owner, poisoned, crashed>>
           /\ pc' = [pc EXCEPT ![t] = IF rest = <<>> THEN "dead" ELSE "panicking"]
    /\ UNCHANGED <<coll, req, err, result, req0, last, trace, mpc, mcoll, nmut>>
    /\ UNCHANGED <<built, leafVars>>

\* The caller takes the result; the thread is free for its next call.
Finish(t) ==
    /\ pc[t] = "done"
    /\ pc' = [pc EXCEPT ![t] = "idle"]
    /\ req' = [req EXCEPT ![t] = EmptyMetadata]
    /\ err' = [err EXCEPT ![t] = None]
    /\ result' = [result EXCEPT ![t] = None]
    /\ req0' = [req0 EXCEPT ![t] = None]
    /\ last' = [last EXCEPT ![t] = None]
    /\ trace' = [trace EXCEPT ![t] = <<>>]
    /\ UNCHANGED <<coll, owner, poisoned, stack, crashed, mpc, mcoll, nmut>>
    /\ UNCHANGED <<built, leafVars>>

---------------------------------------------------------------------------
RECURSIVE SumLen(_, _)
SumLen(f, S) ==
    IF S = {} THEN 0
    ELSE LET c == CHOOSE x \in S : TRUE IN Len(f[c]) + SumLen(f, S \ {c})

TotalMembers(f) == SumLen(f, Colls)

(* A client that changes a collection's membership through its handle:     *)
(* interceptors.lock(), then push / remove on the Vec, then the guard is   *)
(* dropped; it may panic while it holds the guard.                         *)

\* lock(): blocks until the mutex is free.  (A poisoned mutex still hands the
\* guard over, inside the PoisonError.)
MutLock(c) ==
    /\ mpc = "idle"
    /\ owner[c] = NoOwner
    /\ owner' = [owner EXCEPT ![c] = Mutator]
    /\ mpc' = "hold"
    /\ mcoll' = c
    /\ UNCHANGED <<coll, poisoned, pc, stack, req, err, result, req0, last,
                   trace, crashed, nmut>>
    /\ UNCHANGED <<built, leafVars>>

\* Vec::push through the guard.
MutPush(m) ==
    /\ mpc = "hold"
    /\ nmut < MaxMutations
    /\ TotalMembers(coll) < MaxMembers
    /\ coll' = [coll EXCEPT ![mcoll] = Append(@, m)]
    /\ nmut' = nmut + 1
    /\ UNCHANGED <<owner, poisoned, pc, stack, req, err, result, req0, last,
                   trace, crashed, mpc, mcoll>>
    /\ UNCHANGED <<built, leafVars>>

\* Vec::remove(i - 1) through the guard.
MutRemove(i) ==
    /\ mpc = "hold"
    /\ nmut < MaxMutations
    /\ i \in 1..Len(coll[mcoll])
    /\ coll' = [coll EXCEPT ![mcoll] =
                    SubSeq(@, 1, i - 1) \o SubSeq(@, i + 1, Len(@))]
    /\ nmut' = nmut + 1
    /\ UNCHANGED <<owner, poisoned, pc, stack, req, err, result, req0, last,
                   trace, crashed, mpc, mcoll>>
    /\ UNCHANGED <<built, leafVars>>

\* The guard is dropped.
MutUnlock ==
    /\ mpc = "hold"
    /\ owner' = [owner EXCEPT ![mcoll] = NoOwner]
    /\ mpc' = "idle"
    /\ UNCHANGED <<coll, poisoned, pc, stack, req, err, result, req0, last,
                   trace, crashed, mcoll, nmut>>
    /\ UNCHANGED <<built, leafVars>>

\* The holder panics: the guard, dropped while panicking, poisons the mutex.
MutPanic ==
    /\ mpc = "hold"
    /\ owner' = [owner EXCEPT ![mcoll] = NoOwner]
    /\ poisoned' = PoisonOnPanic(mcoll)
    /\ crashed' = crashed \cup {mcoll}
    /\ mpc' = "idle"
    /\ UNCHANGED <<coll, pc, stack, req, err, result, req0, last, trace, mcoll, nmut>>
    /\ UNCHANGED <<built, leafVars>>

---------------------------------------------------------------------------
(* A stand-alone call of one credential interceptor. *)

CallAPIKey ==
    /\ icpt.kind = "apikey"
    /\ lout = None
    /\ lout' = Some(APIKeyCall(icpt, lreq))
    /\ UNCHANGED <<icpt, lreq, lkey>>
    /\ UNCHANGED pipeVars

\* header_key() called on the interceptor, as the tests do.
CallHeaderKey ==
    /\ icpt.kind = "apikey"
    /\ lkey = None
    /\ lkey' = Some(header_key(icpt))
    /\ UNCHANGED <<icpt, lreq, lout>>
    /\ UNCHANGED pipeVars

CallBearer ==
    /\ icpt.kind = "bearer"
    /\ lout = None
    /\ lout' = Some(BearerCall(icpt, lreq))
    /\ UNCHANGED <<icpt, lreq, lkey>>
    /\ UNCHANGED pipeVars

---------------------------------------------------------------------------
(* The specifications. *)

\* vec![Box::new(a), Box::new(b), ..]: the boxes, in the order written.
RECURSIVE VecOf(_)
VecOf(items) ==
    IF items = <<>> THEN <<>> ELSE <<Head(items)>> \o VecOf(Tail(items))

\* A helper that pushes each box at the front of the Vec.
RECURSIVE interceptorsReversed(_)
interceptorsReversed(items) ==
    IF items = <<>> THEN [vec |-> <<>>, owner |-> NoOwner, poisoned |-> FALSE]
    ELSE [interceptorsReversed(Tail(items)) EXCEPT !.vec = Append(@, Head(items))]

\* interceptors!(a, b, ..): the Vec in a new Mutex (free, not poisoned).
interceptors(items) ==
    [vec |-> VecOf(items), owner |-> NoOwner, poisoned |-> FALSE]

\* The instances a collection can be built from: an instance exists before the
\* collection does, so a composite among them is over a collection built
\* earlier (the collections are built from the highest index down).
Buildable(c, items) ==
    \A j \in 1..Len(items) :
        items[j].kind = "composite" => items[j].interceptors > c

\* The collections as interceptors! built them from `built`.
MacroBuilt ==
    /\ coll = [c \in Colls |-> interceptors(built[c]).vec]
    /\ owner = [c \in Colls |-> interceptors(built[c]).owner]
    /\ poisoned = [c \in Colls |-> interceptors(built[c]).poisoned]

\* Before any call: every thread idle.
PipeIdle ==
    /\ pc = [t \in Threads |-> "idle"]
    /\ stack = [t \in Threads |-> <<>>]
    /\ req = [t \in Threads |-> EmptyMetadata]
    /\ err = [t \in Threads |-> None]
    /\ result = [t \in Threads |-> None]
    /\ req0 = [t \in Threads |-> None]
    /\ last = [t \in Threads |-> None]
    /\ trace = [t \in Threads |-> <<>>]
    /\ crashed = {}
    /\ mpc = "idle"
    /\ mcoll = 1
    /\ nmut = 0

LeafIdle ==
    /\ icpt = APIKeyNew(KEY)
    /\ lreq = EmptyMetadata
    /\ lout = None
    /\ lkey = None

\* The collections as the interceptors! macro built them: any instances, in
\* any order, duplicates included.
Init ==
    /\ built \in [Colls -> SeqsUpTo(Members, MaxMembers)]
    /\ TotalMembers(built) <= MaxMembers
    /\ \A c \in Colls : Buildable(c, built[c])
    /\ MacroBuilt
    /\ PipeIdle
    /\ LeafIdle

Next ==
    \/ \E t \in Threads : \E c \in Roots : Start(t, c, RequestOf(t))
    \/ \E t \in Threads : Acquire(t)
    \/ \E t \in Threads : Invoke(t)
    \/ \E t \in Threads : Return(t)
    \/ \E t \in Threads : Propagate(t)
    \/ \E t \in Threads : RelockPanic(t)
    \/ \E t \in Threads : PanicUnwind(t)
    \/ \E t \in Threads : Finish(t)
    \/ \E c \in Colls : MutLock(c)
    \/ \E m \in Members : MutPush(m)
    \/ \E i \in 1..MaxMembers : MutRemove(i)
    \/ MutUnlock
    \/ MutPanic

Spec == Init /\ [][Next]_vars

---------------------------------------------------------------------------
(* Calls on a composite whose collections stay as they were built, with no *)
(* other holder of the guards: an outer collection that may hold           *)
(* composites over an inner collection of credential interceptors.         *)

\* Longest outer collection.
MaxOuter == 3

\* Longest inner collection.
MaxInner == 2

\* The threads that call.
Callers == {1}

\* The credential interceptors of these collections: two that succeed, one
\* that fails.
CallLeaves == {APIKeyNew(KEY), BearerNew(TOKEN), BearerNew(BAD_TOKEN)}

\* The requests the callers send: one with no metadata, and two with some.
CallRequests == {EmptyMetadata} \cup {RequestOf(t) : t \in Threads}

CallInit ==
    /\ built \in [Colls -> SeqsUpTo(CallLeaves \cup {CompositeNew(2)}, MaxOuter)]
    /\ built[2] \in SeqsUpTo(CallLeaves, MaxInner)
    /\ \A c \in Colls : Buildable(c, built[c])
    /\ MacroBuilt
    /\ PipeIdle
    /\ LeafIdle

CallNext ==
    \/ \E t \in Callers : \E c \in Roots : \E r \in CallRequests : Start(t, c, r)
    \/ \E t \in Callers : Acquire(t)
    \/ \E t \in Callers : Invoke(t)
    \/ \E t \in Callers : Return(t)
    \/ \E t \in Callers : Propagate(t)
    \/ \E t \in Callers : Finish(t)

CallSpec == CallInit /\ [][CallNext]_vars

---------------------------------------------------------------------------
(* The credential interceptors alone, over a range of secrets, tokens,     *)
(* header-name overrides and requests.                                     *)

\* Longest secret or token.
MaxSecretLen == 2

\* 'k', ' ', tab, newline, DEL, and 0xC3 (the first byte of a two-byte UTF-8
\* character): the last three are not visible ASCII.
SecretBytes == {107, 32, 9, 10, 127, 195}

Secrets == SeqsUpTo(SecretBytes, MaxSecretLen)

\* "alternative-key", "X-Key", "", "a b", "x-bin", "X-BIN"
Overrides ==
    {<<97, 108, 116, 101, 114, 110, 97, 116, 105, 118, 101, 45, 107, 101, 121>>,
     <<88, 45, 75, 101, 121>>,
     <<>>,
     <<97, 32, 98>>,
     <<120, 45, 98, 105, 110>>,
     <<88, 45, 66, 73, 78>>}

\* "x-key"
X_KEY == <<120, 45, 107, 101, 121>>

\* "newer"
NEWER == <<110, 101, 119, 101, 114>>

LeafInterceptors ==
    {APIKeyNew(k) : k \in Secrets}
        \cup {APIKeyWith(h, k) : h \in Overrides, k \in Secrets}
        \cup {BearerNew(k) : k \in Secrets}

LeafRequests ==
    {EmptyMetadata,
     (X_API_KEY :> <<OLD>>),
     (X_API_KEY :> <<OLD, NEWER>>) @@ (REQUEST_ID :> <<OLD>>),
     (X_KEY :> <<OLD>>) @@ (AUTHORIZATION :> <<OLD, NEWER>>),
     (AUTHORIZATION :> <<OLD>>) @@ (REQUEST_ID :> <<NEWER>>) @@ (X_API_KEY :> <<KEY>>)}

LeafInit ==
    /\ built = [c \in Colls |-> <<>>]
    /\ MacroBuilt
    /\ PipeIdle
    /\ icpt \in LeafInterceptors
    /\ lreq \in LeafRequests
    /\ lout = None
    /\ lkey = None

LeafNext == CallAPIKey \/ CallHeaderKey \/ CallBearer

LeafSpec == LeafInit /\ [][LeafNext]_vars

---------------------------------------------------------------------------
(* What the properties below speak of. *)

\* The frames of CompositeInterceptor::call that have returned most recently,
\* one per thread, at any depth of nesting.
ReturnedFrames == {last[t][1] : t \in {u \in Threads : last[u] # None}}

\* The frames still running.
ActiveFrames(t) == {stack[t][i] : i \in DOMAIN stack[t]}

\* Entry e of a frame's history: the member returned an Err.
Failed(e) == e.out # None /\ ~e.out[1].ok

\* Entry e of a frame's history: the member returned an Ok.
Succeeded(e) == e.out # None /\ e.out[1].ok

\* The request member j of frame r must be given: the frame's own request for
\* the first member, what the previous member returned for the others.
Threaded(r, j) == IF j = 1 THEN r.reqIn ELSE r.hist[j - 1].out[1].req

\* The Status a composite returns when lock() fails on a poisoned mutex.
LOCK_FAILED ==
    [code |-> "Internal",
     message |-> "Failed to lock interceptors: poisoned lock: another task failed inside"]

---------------------------------------------------------------------------
(* C1.  When the k-th member of a composite is the first to fail, the call *)
(* returns exactly that member's error (same code, same message), members  *)
(* 1..k-1 were each invoked once, in order, and succeeded, and no member   *)
(* after position k was invoked.                                           *)
C1_ShortCircuit ==
    \A r \in ReturnedFrames :
        \A k \in 1..Len(r.hist) :
            Failed(r.hist[k]) =>
                /\ r.out = r.hist[k].out[1]
                /\ ~r.out.ok
                /\ Len(r.hist) = k
                /\ k <= Len(r.snap)
                /\ \A j \in 1..k : r.hist[j].member = r.snap[j]
                /\ \A j \in 1..(k - 1) : Succeeded(r.hist[j])
                /\ \A j \in 1..k : r.hist[j].reqIn = Threaded(r, j)

\* A call on a collection of two in which the first member fails: the second
\* member exists and was not invoked.
C1_Witness ==
    \E r \in ReturnedFrames :
        /\ Len(r.snap) = 2
        /\ Len(r.hist) = 1
        /\ Failed(r.hist[1])
        /\ r.out.status.code = "InvalidArgument"
        /\ r.snap[2].kind \in {"apikey", "bearer"}

(* C2.  When every member of a composite succeeds, the members are invoked *)
(* exactly once each, in the collection's order, each one given the        *)
(* request the previous one returned, and the call returns the request the *)
(* last member returned.                                                   *)
C2_InOrderThreaded ==
    \A r \in ReturnedFrames :
        (~r.poison /\ \A j \in 1..Len(r.hist) : Succeeded(r.hist[j])) =>
            /\ Len(r.hist) = Len(r.snap)
            /\ \A j \in 1..Len(r.hist) :
                  /\ r.hist[j].member = r.snap[j]
                  /\ r.hist[j].reqIn = Threaded(r, j)
            /\ r.out = Ok(Threaded(r, Len(r.hist) + 1))

\* A call in which two members succeeded, the second changing the request
\* the first returned.
C2_Witness ==
    \E r \in ReturnedFrames :
        /\ Len(r.hist) = 2
        /\ r.out.ok
        /\ r.depth = 0
        /\ r.hist[2].out[1].req # r.hist[1].out[1].req
        /\ r.hist[1].out[1].req # r.reqIn

(* C3.  When lock() finds the mutex poisoned, the composite's call returns *)
(* an error of kind "internal" whose message tells of the lock failure,    *)
(* and invokes no member.                                                  *)
C3_PoisonedLockFails ==
    /\ \A r \in ReturnedFrames :
          r.poison => (r.out = Err(LOCK_FAILED) /\ r.hist = <<>>)
    /\ \A t \in Threads :
          \A f \in ActiveFrames(t) :
              f.poison => (f.hist = <<>> /\ f.i = 0 /\ pc[t] = "unwind"
                           /\ err[t] = Some(LOCK_FAILED))

\* A call on a poisoned, non-empty collection has returned to its caller.
C3_Witness ==
    \E t \in Threads :
        /\ result[t] = Some(Err(LOCK_FAILED))
        /\ last[t] # None
        /\ last[t][1].poison
        /\ last[t][1].snap # <<>>

\* The credential interceptors of `ms` run one after the other on request r,
\* stopping at the first Err: the pipeline on that request alone.
RECURSIVE RunAlone(_, _)
RunAlone(ms, r) ==
    IF ms = <<>> THEN Ok(r)
    ELSE LET out == LeafCall(Head(ms), r)
         IN  IF out.ok THEN RunAlone(Tail(ms), out.req) ELSE out

IsCredential(m) == m.kind \in {"apikey", "bearer"}

(* C4.  When several threads call the same composite at once, each on its  *)
(* own request, the request a call returns is the one the pipeline run on  *)
(* that request alone gives: nothing of another call's request shows.      *)
C4_CallsIndependent ==
    \A t \in Threads :
        (result[t] # None /\ result[t][1].ok) =>
            /\ result[t][1] = RunAlone(trace[t], req0[t][1])
            /\ (\A j \in 1..Len(last[t][1].snap) : IsCredential(last[t][1].snap[j]))
                   => result[t][1] = RunAlone(last[t][1].snap, req0[t][1])

\* Two calls, on different requests, have both returned a request that two
\* members changed.
C4_Witness ==
    /\ \A t \in Threads :
          /\ result[t] # None
          /\ result[t][1].ok
          /\ Len(trace[t]) = 2
          /\ trace[t][1] # trace[t][2]
    /\ \E t, u \in Threads : req0[t] # req0[u]

\* Some threads each wait for a mutex that one of them holds.
Deadlocked ==
    \E D \in SUBSET Threads :
        /\ D # {}
        /\ \A t \in D : pc[t] = "lock" /\ owner[Top(t).coll] \in D

(* C5.  When several threads call the same composite at once and no mutex  *)
(* is poisoned, no deadlock is reachable: no thread ever waits for a mutex *)
(* in a circle of waiting threads.                                         *)
C5_NoDeadlock ==
    ((\A c \in Colls : ~poisoned[c]) /\ (\A t \in Threads : stack[t] # <<>>))
        => ~Deadlocked

(* C6.  While a call iterates a collection it alone holds the collection's *)
(* mutex: the Vec stays what it was when the call locked it, the members   *)
(* the call invokes are that Vec's, in order, and no other call or         *)
(* membership change holds the same mutex.                                 *)
C6_ConsistentSnapshot ==
    /\ \A t \in Threads :
          \A f \in ActiveFrames(t) :
              f.held =>
                  /\ owner[f.coll] = t
                  /\ coll[f.coll] = f.snap
                  /\ Len(f.hist) <= Len(f.snap)
                  /\ \A j \in 1..Len(f.hist) : f.hist[j].member = f.snap[j]
                  /\ \A u \in Threads \ {t} :
                        \A g \in ActiveFrames(u) : g.held => g.coll # f.coll
    /\ mpc = "hold" => owner[mcoll] = Mutator
    /\ \A r \in ReturnedFrames :
          /\ Len(r.hist) <= Len(r.snap)
          /\ \A j \in 1..Len(r.hist) : r.hist[j].member = r.snap[j]
          /\ r.out.ok => Len(r.hist) = Len(r.snap)

\* A call is between two members of its collection, after a membership change
\* was made, while the other thread waits for the same mutex.
C6_Witness ==
    \E t, u \in Threads :
        /\ pc[t] = "run"
        /\ Len(stack[t]) = 1
        /\ Top(t).i = 1
        /\ Len(Top(t).snap) = 2
        /\ nmut > 0
        /\ pc[u] = "lock"
        /\ Top(u).coll = Top(t).coll

(* C7.  The mutex is released on every way out of a composite's call: a    *)
(* mutex is held by a thread only for a frame of that thread that is still *)
(* running, and once a call has returned (a request, a member's error or   *)
(* the lock's error) its thread holds no mutex.                            *)
C7_LockReleased ==
    /\ \A c \in Colls :
          owner[c] \in Threads =>
              \E f \in ActiveFrames(owner[c]) : f.coll = c /\ f.held
    /\ \A t \in Threads :
          result[t] # None =>
              /\ stack[t] = <<>>
              /\ \A c \in Colls : owner[c] # t

\* One call has returned a member's error and another the lock's error, and
\* the membership-changing client has since taken the mutex.
C7_Witness ==
    \E t, u \in Threads :
        /\ result[t] # None
        /\ result[t][1].status.code = "InvalidArgument"
        /\ result[u] = Some(Err(LOCK_FAILED))
        /\ last[t][1].coll = last[u][1].coll
        /\ owner[last[t][1].coll] = Mutator

(* C8.  After a holder of a collection's mutex has panicked while holding  *)
(* it, a call on a composite over that collection returns the "internal"   *)
(* error of the lock: it invokes no member and returns no request.         *)
C8_CrashSurfaces ==
    /\ \A r \in ReturnedFrames :
          r.afterCrash => (r.out = Err(LOCK_FAILED) /\ r.hist = <<>>)
    /\ \A t \in Threads :
          \A f \in ActiveFrames(t) :
              f.afterCrash => (f.hist = <<>> /\ pc[t] = "unwind")
    /\ \A t \in Threads :
          (result[t] # None /\ last[t][1].afterCrash) =>
              (result[t] = Some(Err(LOCK_FAILED)) /\ trace[t] = <<>>)

\* A thread's own panic (it locked a mutex it held) poisoned the collection,
\* and the other thread's call on it has returned the lock's error.
C8_Witness ==
    \E t, u \in Threads :
        /\ pc[t] = "dead"
        /\ result[u] = Some(Err(LOCK_FAILED))
        /\ last[u][1].afterCrash
        /\ last[u][1].snap # <<>>
        /\ mpc = "idle"

(* C9, as the specification states it.  A composite over an empty          *)
(* collection returns the request unmodified and never fails.              *)
C9_EmptyNeverFails ==
    \A r \in ReturnedFrames : r.snap = <<>> => r.out = Ok(r.reqIn)

(* C9, amended.  A composite over an empty collection whose mutex is not   *)
(* poisoned returns the request unmodified and does not fail.              *)
C9_EmptyUnpoisonedReturnsRequest ==
    \A r \in ReturnedFrames :
        (r.snap = <<>> /\ ~r.poison) => (r.out = Ok(r.reqIn) /\ r.hist = <<>>)

\* A call on an empty collection has returned the caller's request, which
\* holds metadata.
C9_Witness ==
    \E t \in Threads :
        /\ result[t] # None
        /\ last[t][1].snap = <<>>
        /\ ~last[t][1].poison
        /\ req0[t][1] # EmptyMetadata
        /\ result[t] = Some(Ok(req0[t][1]))

(* C10.  A successful call of the API-key interceptor leaves the request   *)
(* with exactly one entry under the resolved header name, its value the    *)
(* secret as it is, and with the entries under every other key unchanged.  *)
C10_APIKeyInsertsOne ==
    (lout # None /\ icpt.kind = "apikey" /\ lout[1].ok) =>
        LET k == header_key(icpt)
            md == lout[1].req
        IN  /\ k \in DOMAIN md
            /\ md[k] = <<icpt.api_key>>
            /\ DOMAIN md = DOMAIN lreq \cup {k}
            /\ \A x \in DOMAIN lreq \ {k} : md[x] = lreq[x]

\* A successful call with an override, on a request that held two entries
\* under the resolved name and an entry under another key.
C10_Witness ==
    /\ lout # None
    /\ icpt.kind = "apikey"
    /\ lout[1].ok
    /\ icpt.api_key # <<>>
    /\ header_key(icpt) \in DOMAIN lreq
    /\ Len(lreq[header_key(icpt)]) = 2
    /\ DOMAIN lreq # {header_key(icpt)}

---------------------------------------------------------------------------
(* The credential interceptors: values that do not parse, header names.    *)

\* The string is a metadata value: AsciiMetadataValue::from_str accepts it.
ParsesAsValue(s) == AsciiMetadataValueFromStr(s).ok

\* The string is an ASCII metadata key: MetadataKey::<Ascii>::from_bytes
\* accepts it.
ParsesAsKey(s) == MetadataKeyFromBytes(s).ok

\* The string the stand-alone interceptor has to parse as a metadata value.
ValueToParse ==
    IF icpt.kind = "apikey" THEN icpt.api_key ELSE BEARER_PREFIX \o icpt.token

\* The fixed diagnostic of each credential interceptor.
Diagnostic ==
    IF icpt.kind = "apikey" THEN "Error while setting additional metadata"
    ELSE "Invalid Token"

HasOverride == icpt.kind = "apikey" /\ icpt.header_name # None

(* C11.  When the secret (API-key interceptor) or "Bearer <token>" (bearer *)
(* interceptor) is not a metadata value, the call fails with an "invalid   *)
(* argument" status that carries the interceptor's fixed message, and      *)
(* returns no request: no entry was inserted.                              *)
C11_UnparsableValueFails ==
    (lout # None /\ ~ParsesAsValue(ValueToParse)) =>
        /\ ~lout[1].ok
        /\ lout[1].status = [code |-> "InvalidArgument", message |-> Diagnostic]
        /\ lout[1].req = EmptyMetadata

\* The API-key interceptor, with a valid override, has failed on a secret
\* that holds a newline, on a request that held metadata.
C11_Witness ==
    /\ lout # None
    /\ HasOverride
    /\ ParsesAsKey(icpt.header_name[1])
    /\ 10 \in {icpt.api_key[i] : i \in 1..Len(icpt.api_key)}
    /\ lreq # EmptyMetadata
    /\ ~lout[1].ok

(* C12.  An invalid header-name override never fails a call: with an       *)
(* override that is not an ASCII key and a secret that is a metadata       *)
(* value, the call succeeds and the secret is under "x-api-key"; a call of *)
(* the API-key interceptor fails only when its secret does not parse.      *)
C12_InvalidOverrideNeverFails ==
    (lout # None /\ icpt.kind = "apikey") =>
        /\ lout[1].ok <=> ParsesAsValue(icpt.api_key)
        /\ (HasOverride /\ ~ParsesAsKey(icpt.header_name[1])
                /\ ParsesAsValue(icpt.api_key)) =>
              /\ lout[1].ok
              /\ X_API_KEY \in DOMAIN lout[1].req
              /\ lout[1].req[X_API_KEY] = <<icpt.api_key>>
              /\ DOMAIN lout[1].req = DOMAIN lreq \cup {X_API_KEY}

\* A call with the override "a b" and a non-empty secret has succeeded on a
\* request that had no x-api-key entry.
C12_Witness ==
    /\ lout # None
    /\ HasOverride
    /\ icpt.header_name[1] = <<97, 32, 98>>
    /\ icpt.api_key # <<>>
    /\ X_API_KEY \notin DOMAIN lreq
    /\ lout[1].ok

(* C13, as the specification states it.  With an override that parses as   *)
(* an ASCII key, header_key() is the override string itself; otherwise it  *)
(* is "x-api-key".                                                         *)
C13_HeaderKeyIsOverride ==
    (HasOverride /\ lkey # None) =>
        lkey[1] = IF ParsesAsKey(icpt.header_name[1])
                  THEN icpt.header_name[1] ELSE X_API_KEY

\* s and k are the same string but for the case of the letters, and k has no
\* upper-case letter.
IsLowerCaseOf(k, s) ==
    /\ Len(k) = Len(s)
    /\ \A i \in 1..Len(s) :
          /\ k[i] \notin 65..90
          /\ \/ k[i] = s[i]
             \/ (s[i] \in 65..90 /\ k[i] = s[i] + 32)

(* C13, amended.  With an override that parses as an ASCII key,            *)
(* header_key() is the override in lower case (the override itself when it *)
(* has no upper-case letter); otherwise it is "x-api-key".                 *)
C13_HeaderKeyIsOverrideLowerCased ==
    (HasOverride /\ lkey # None) =>
        IF ParsesAsKey(icpt.header_name[1])
        THEN /\ IsLowerCaseOf(lkey[1], icpt.header_name[1])
             /\ (\A i \in 1..Len(icpt.header_name[1]) :
                     icpt.header_name[1][i] \notin 65..90)
                    => lkey[1] = icpt.header_name[1]
        ELSE lkey[1] = X_API_KEY

\* header_key() has returned "x-key" for the override "X-Key", and a call has
\* put the secret under it.
C13_Witness ==
    /\ lout # None
    /\ HasOverride
    /\ icpt.header_name[1] = <<88, 45, 75, 101, 121>>
    /\ lkey = Some(X_KEY)
    /\ lout[1].ok
    /\ X_KEY \in DOMAIN lout[1].req
    /\ lout[1].req[X_KEY] = <<icpt.api_key>>

(* C14.  Absent an override, as after APIKeyClientInterceptor::new for any *)
(* api key, header_key() is "x-api-key", and that is the key a successful  *)
(* call inserts under.                                                     *)
C14_DefaultHeaderKey ==
    \A k \in Secrets :
        icpt = APIKeyNew(k) =>
            /\ lkey # None => lkey[1] = X_API_KEY
            /\ (lout # None /\ lout[1].ok) =>
                  /\ DOMAIN lout[1].req = DOMAIN lreq \cup {X_API_KEY}
                  /\ lout[1].req[X_API_KEY] = <<k>>

\* An interceptor built by new() with a secret that is itself a valid header
\* name has been called on a request with no x-api-key entry.
C14_Witness ==
    /\ lout # None
    /\ lkey = Some(X_API_KEY)
    /\ icpt = APIKeyNew(<<107>>)
    /\ X_API_KEY \notin DOMAIN lreq
    /\ lout[1].ok

(* C15, as the specification states it.  For every token, the bearer       *)
(* interceptor inserts, under "authorization", exactly "Bearer " followed  *)
(* by the token, and leaves the entries under every other key unchanged.   *)
C15_BearerInsertsForEveryToken ==
    (lout # None /\ icpt.kind = "bearer") =>
        /\ lout[1].ok
        /\ AUTHORIZATION \in DOMAIN lout[1].req
        /\ lout[1].req[AUTHORIZATION] = <<BEARER_PREFIX \o icpt.token>>
        /\ DOMAIN lout[1].req = DOMAIN lreq \cup {AUTHORIZATION}
        /\ \A x \in DOMAIN lreq \ {AUTHORIZATION} : lout[1].req[x] = lreq[x]

(* C15, amended.  For every token such that "Bearer " followed by the      *)
(* token is a metadata value, the bearer interceptor inserts, under        *)
(* "authorization", exactly that string, and leaves the entries under      *)
(* every other key unchanged.                                              *)
C15_BearerInsertsForValidToken ==
    (lout # None /\ icpt.kind = "bearer"
        /\ \A i \in 1..Len(icpt.token) : IsVisibleAscii(icpt.token[i])) =>
        /\ lout[1].ok
        /\ AUTHORIZATION \in DOMAIN lout[1].req
        /\ lout[1].req[AUTHORIZATION] = <<BEARER_PREFIX \o icpt.token>>
        /\ DOMAIN lout[1].req = DOMAIN lreq \cup {AUTHORIZATION}
        /\ \A x \in DOMAIN lreq \ {AUTHORIZATION} : lout[1].req[x] = lreq[x]

\* A call with a two-byte token has succeeded on a request that held two
\* authorization entries and an entry under another key.
C15_Witness ==
    /\ lout # None
    /\ icpt.kind = "bearer"
    /\ Len(icpt.token) = 2
    /\ lout[1].ok
    /\ AUTHORIZATION \in DOMAIN lreq
    /\ Len(lreq[AUTHORIZATION]) = 2
    /\ DOMAIN lreq # {AUTHORIZATION}

---------------------------------------------------------------------------
(* The collection the macro builds, and what a call leaves of it.          *)

\* No call is running, no holder has the guard, and no holder has changed
\* the membership or panicked since the collections were built.
Fresh ==
    /\ \A t \in Threads : pc[t] = "idle"
    /\ mpc = "idle"
    /\ nmut = 0
    /\ crashed = {}

(* C17.  The interceptors! macro, given n instances, gives a shared        *)
(* collection that holds exactly those n instances, in the order given,    *)
(* duplicates kept, behind a mutex that is free and not poisoned; given no *)
(* instance it gives an empty collection.  The first call to lock it gets  *)
(* the guard, with no poison, on those instances in that order.            *)
C17_MacroBuildsCollection ==
    /\ Fresh =>
          \A c \in Colls :
              /\ Len(coll[c]) = Len(built[c])
              /\ \A j \in 1..Len(built[c]) : coll[c][j] = built[c][j]
              /\ built[c] = <<>> => coll[c] = <<>>
              /\ owner[c] = NoOwner
              /\ ~poisoned[c]
    /\ (nmut = 0 /\ crashed = {}) =>
          \A t \in Threads :
              \A f \in ActiveFrames(t) :
                  f.held => (f.snap = built[f.coll] /\ ~f.poison)

\* The collections were built from the two instances of the macro's test, in
\* that order, and from no instance; a call has locked the first.
C17_Witness ==
    /\ nmut = 0 /\ crashed = {} /\ mpc = "idle"
    /\ built[1] = <<APIKeyNew(KEY), BearerNew(TOKEN)>>
    /\ built[2] = <<>>
    /\ coll[2] = <<>>
    /\ \E t \in Threads :
          /\ pc[t] = "run"
          /\ Top(t).i = 0
          /\ Top(t).snap[1].kind = "apikey"
          /\ Top(t).snap[2].kind = "bearer"

\* A call on a composite cannot return any more: it waits for a mutex its own
\* thread holds, or its thread is panicking or gone.
Stuck(t) ==
    \/ pc[t] = "lock" /\ owner[Top(t).coll] = t
    \/ pc[t] \in {"panicking", "dead"}

(* C18.  A call on a composite always returns, for every arrangement of    *)
(* nested composites, a composite over its own collection included: the    *)
(* call never waits for a mutex it already holds.                          *)
C18_CallNeverStuck == \A t \in Threads : ~Stuck(t)

(* C20.  A call on a composite, whether it succeeds or fails, leaves the   *)
(* collection's members and their order as they were: only a membership    *)
(* change alters any collection, and when a frame of the call returns, its *)
(* collection is the sequence the frame found when it locked it.           *)
C20_CallLeavesMembership ==
    [][/\ nmut' = nmut => coll' = coll
       /\ \A t \in Threads :
             (pc[t] \in {"run", "unwind"} /\ Len(stack'[t]) < Len(stack[t]))
                 => coll'[Top(t).coll] = Top(t).snap]_vars

\* Two calls, with no membership change before or between them, have both
\* returned, having run the same two members in the same order, and the
\* collection is still what the macro built.
C20_Witness ==
    \E t, u \in Threads :
        /\ t # u
        /\ nmut = 0
        /\ result[t] # None /\ result[u] # None
        /\ Len(trace[t]) = 2
        /\ trace[t] = trace[u]
        /\ coll[last[t][1].coll] = last[t][1].snap
        /\ coll = built

---------------------------------------------------------------------------
(* The composite over given collections. *)

\* "Bearer token"
BEARER_TOKEN == <<66, 101, 97, 114, 101, 114, 32, 116, 111, 107, 101, 110>>

(* C16.  A composite over the collection [API-key interceptor with secret  *)
(* "key", bearer interceptor with token "token"], called on a request with *)
(* no metadata, succeeds, and the request it returns has exactly two       *)
(* entries: x-api-key = "key" and authorization = "Bearer token".          *)
C16_KeyThenBearer ==
    \A t \in Threads :
        (/\ result[t] # None
         /\ last[t][1].snap = <<APIKeyNew(KEY), BearerNew(TOKEN)>>
         /\ req0[t] = Some(EmptyMetadata)) =>
            /\ result[t][1].ok
            /\ DOMAIN result[t][1].req = {X_API_KEY, AUTHORIZATION}
            /\ Cardinality(DOMAIN result[t][1].req) = 2
            /\ result[t][1].req[X_API_KEY] = <<KEY>>
            /\ result[t][1].req[AUTHORIZATION] = <<BEARER_TOKEN>>

\* The call on that collection, with an empty request, has returned.
C16_Witness ==
    \E t \in Threads :
        /\ result[t] # None
        /\ last[t][1].snap = <<APIKeyNew(KEY), BearerNew(TOKEN)>>
        /\ last[t][1].depth = 0
        /\ req0[t] = Some(EmptyMetadata)
        /\ Len(trace[t]) = 2

\* The members of `ms`, each composite among them replaced in place by the
\* (flattened) members of its collection.
RECURSIVE Flatten(_)
Flatten(ms) ==
    IF ms = <<>> THEN <<>>
    ELSE (IF Head(ms).kind = "composite"
          THEN Flatten(coll[Head(ms).interceptors])
          ELSE <<Head(ms)>>) \o Flatten(Tail(ms))

IsPrefix(p, q) == Len(p) <= Len(q) /\ SubSeq(q, 1, Len(p)) = p

\* The frame's collection holds a composite over another collection.
Nests(r) ==
    \E j \in 1..Len(r.snap) :
        r.snap[j].kind = "composite" /\ r.snap[j].interceptors # r.coll

(* C19.  Nesting is transparent: a composite whose collection holds a      *)
(* composite over another collection returns, for every request, what a    *)
(* composite over the flattened list returns: the same metadata, or the    *)
(* same error of the same failing credential interceptor, the credential   *)
(* interceptors having run in the flattened order.                         *)
C19_NestingTransparent ==
    \A t \in Threads :
        (result[t] # None /\ Nests(last[t][1])) =>
            LET flat == Flatten(last[t][1].snap)
            IN  /\ result[t][1] = RunAlone(flat, req0[t][1])
                /\ IsPrefix(trace[t], flat)
                /\ result[t][1].ok => trace[t] = flat
                /\ ~result[t][1].ok =>
                      ~LeafCall(trace[t][Len(trace[t])],
                                RunAlone(SubSeq(trace[t], 1, Len(trace[t]) - 1),
                                         req0[t][1]).req).ok

\* A call on [credential, composite over two credentials, credential], with
\* a request that holds metadata, has returned a request.
C19_Witness ==
    \E t \in Threads :
        /\ result[t] # None
        /\ result[t][1].ok
        /\ Len(last[t][1].snap) = 3
        /\ last[t][1].snap[1].kind = "bearer"
        /\ last[t][1].snap[2].kind = "composite"
        /\ last[t][1].snap[3].kind = "apikey"
        /\ Len(coll[2]) = 2
        /\ coll[2][1] # coll[2][2]
        /\ Len(trace[t]) = 4
        /\ req0[t][1] # EmptyMetadata

=============================================================================
